---- MODULE Spec2Model ----
(***************************************************************************)
(* Model of the nsk-pulscen crawler.                                       *)
(*                                                                         *)
(*   SpecFetch  utils.fetch_html_with_retries over _fetch_with_playwright  *)
(*   SpecWalk   parse_product_links.parse, the pagination walk of one      *)
(*              subcategory, over a bounded site                           *)
(*   Spec       parse_all_products.main: link collection, the product      *)
(*              tasks of gather_products, atomic_writer, the store         *)
(*                                                                         *)
(* The program is single-threaded asyncio code: a coroutine runs without   *)
(* interruption from one await that really suspends to the next, so each   *)
(* action is the code between two such awaits.                             *)
(*                                                                         *)
(* Strings of the source are transliterated to ASCII.                      *)
(***************************************************************************)
EXTENDS Naturals, Sequences, FiniteSets

VARIABLES
    \* ---- utils.fetch_html_with_retries
    fPc,         \* "idle" | "attempting" | "sleeping" | "returned" | "raised"
                 \* | "returnedNone" | "escaped"
    retries,     \* the retries argument
    attempt,     \* the loop variable
    attemptLog,  \* every call of _fetch_with_playwright, in order: the
                 \* browser's answer (ans) and the call's outcome (out)
    delays,      \* argument of every asyncio.sleep, in order
    fResult,     \* the returned (html, final_url), or NoValue
    fError,      \* the raised exception, or NoValue
    \* ---- parse_product_links.parse
    wPc,         \* "idle" | "fetching" | "returned" | "raised" | "cut"
    site,        \* the listing pages the server holds
    page_url,    \* the loop variable page_url
    results,     \* the list results
    fetchLog,    \* every fetch_html call of the walk, in order
    wReturn,     \* the returned list, or NoValue
    \* ---- parse_all_products.main
    mainPc,      \* "start" | "categories" | "links" | "walking" | "gather"
                 \* | "done" | "failed"
    concurrency, \* the product_concurrency argument
    debug_dir,   \* whether a debug directory was given
    subcats,     \* the number of subcategories parse_categories.parse found
    walked,      \* the number of subcategories walked so far
    links,       \* the list links of gather_product_links
    tasks,       \* the parse_and_store tasks of gather_products, one per URL
    sem,         \* the value of the semaphore sem
    html_saved,  \* the event html_saved
    gatherExc,   \* the first exception a task let escape ("none": none yet)
    store,       \* db.products: document id -> document (NoDoc: absent)
    tmp,         \* the temporary file of atomic_writer
    dest,        \* the file at the destination path
    dest0,       \* the file at the destination path when the run started
    mongo,       \* "unopened" | "open" | "closed"
    clientCloses,      \* the calls of client.close() so far
    closeBrowserCalls, \* the calls of close_browser so far
    \* ---- utils: the module globals _playwright and _browser
    playwright,  \* None, or the Playwright instance held
    browser,     \* None, or the Browser instance held
    \* ---- utils._fetch_with_playwright, called by concurrent fetches
    brPc,        \* fetch -> its position in _fetch_with_playwright
    got,         \* fetch -> the browser get_browser returned to it (None: none)
    contexts,    \* fetch -> "none" | "open" | "closed": its browsing context
    started,     \* the Playwright instances started so far
    launched,    \* the browser processes launched so far
    \* ---- gather_products.parse_and_store: the block under write_lock
    wrPc,        \* writer -> its position in the block
    write_lock,  \* the holder of write_lock (NoWriter: unlocked)
    fhBuffer,    \* what out_fh.write left in the buffer of out_fh
    osFile,      \* what flush handed to the operating system
    disk,        \* what fsync put on the disk
    \* ---- utils.atomic_writer, one with-block
    awPc,        \* the position in atomic_writer and the body of the with
    fh,          \* the handle fh: "none" | "open" | "closed"
    written,     \* the lines written through fh so far
    tmp_file,    \* the file at tmp_path
    path_file,   \* the file at path
    path0,       \* the file at path when atomic_writer was entered
    fhAtReplace  \* the state of fh when os.replace was called ("none": not called)

mainVars ==
    <<mainPc, concurrency, debug_dir, subcats, walked, links, tasks, sem,
      html_saved, gatherExc, store, tmp, dest, dest0, mongo, clientCloses,
      closeBrowserCalls>>

fetchVars == <<fPc, retries, attempt, attemptLog, delays, fResult, fError>>
walkVars == <<wPc, site, page_url, results, fetchLog, wReturn>>

handleVars == <<playwright, browser>>
browserVars == <<brPc, got, contexts, started, launched>>
writeVars == <<wrPc, write_lock, fhBuffer, osFile, disk>>

awVars == <<awPc, fh, written, tmp_file, path_file, path0, fhAtReplace>>

vars ==
    <<fetchVars, walkVars, mainVars, handleVars, browserVars, writeVars, awVars>>

\* The value None.
None == 0

NoValue == [kind |-> "none"]

(***************************************************************************)
(* utils.py: block detection, _fetch_with_playwright, the retry loop       *)
(***************************************************************************)

\* Bound: the largest retries argument tried (0 covers the empty loop).
MaxRetries == 4

BLOCK_PATTERNS == {"ne robot", "dostup ogranichen", "slishkom mnogo zaprosov"}

\* Page bodies the server may answer with.  "SmartCaptcha" is the footer
\* the comment of BLOCK_PATTERNS talks about: it must not count as a block.
Bodies ==
    {"tovar", "Tovar SmartCaptcha", "ne robot", "NE ROBOT",
     "Dostup Ogranichen", "slishkom mnogo zaprosov"}

\* str.lower() on the bodies above.
Lower(s) ==
    CASE s = "NE ROBOT" -> "ne robot"
      [] s = "Dostup Ogranichen" -> "dostup ogranichen"
      [] s = "Tovar SmartCaptcha" -> "tovar smartcaptcha"
      [] s = "Tovar" -> "tovar"
      [] OTHER -> s

\* any(pattern in lowered for pattern in BLOCK_PATTERNS) without lower():
\* the case-sensitive scan.
BlockedCaseSensitive(html) == html \in BLOCK_PATTERNS

\* lowered = html.lower(); any(pattern in lowered for pattern in BLOCK_PATTERNS)
Blocked(html) == Lower(html) \in BLOCK_PATTERNS

\* What the browser does on one page load: it renders a page, or goto /
\* new_context / launch raises playwright's Error, or something else raises.
FinalUrls == {"url", "redirected"}

BrowserAnswers ==
    [kind : {"page"}, html : Bodies, final_url : FinalUrls]
        \cup {[kind |-> "Error"], [kind |-> "Exception"]}

\* _fetch_with_playwright: the outcome of one attempt given the browser's answer.
FetchWithPlaywright(ans) ==
    IF ans.kind = "page"
    THEN IF Blocked(ans.html)
         THEN [kind |-> "RuntimeError"]
         ELSE [kind |-> "ok", html |-> ans.html, final_url |-> ans.final_url]
    ELSE ans

\* The except clauses of the retry loop without the final `except Exception`.
CaughtNoCatchAll(kind) == kind \in {"RuntimeError", "Error"}

\* The except clauses of the retry loop: RuntimeError, Error, Exception.
Caught(kind) == kind \in {"RuntimeError", "Error", "Exception"}

\* Exponential backoff in place of the linear one.
BackoffDelayExp(n) == 2 ^ n

\* asyncio.sleep(2 * attempt)
BackoffDelay(n) == 2 * n

FetchInit ==
    /\ fPc = "idle"
    /\ retries = 0
    /\ attempt = 0
    /\ attemptLog = <<>>
    /\ delays = <<>>
    /\ fResult = NoValue
    /\ fError = NoValue

\* The call: range(1, retries + 1) is empty for retries < 1 and the function
\* falls off its end, returning None.
FetchCall ==
    /\ fPc = "idle"
    /\ \E r \in 0..MaxRetries :
        /\ retries' = r
        /\ IF r >= 1
           THEN fPc' = "attempting" /\ attempt' = 1
           ELSE fPc' = "returnedNone" /\ attempt' = 0
    /\ UNCHANGED <<attemptLog, delays, fResult, fError, walkVars, mainVars,
                   writeVars, awVars, browserVars, handleVars>>

\* One iteration of the loop up to its next suspension: the attempt, then
\* return, raise FetchError, or start the sleep.
FetchAttempt ==
    /\ fPc = "attempting"
    /\ \E ans \in BrowserAnswers :
        LET out == FetchWithPlaywright(ans) IN
        /\ attemptLog' = Append(attemptLog, [ans |-> ans, out |-> out])
        /\ IF out.kind = "ok"
           THEN /\ fPc' = "returned"
                /\ fResult' = [kind |-> "pair", html |-> out.html,
                               final_url |-> out.final_url]
                /\ UNCHANGED <<fError, delays>>
           ELSE IF ~Caught(out.kind)
           THEN /\ fPc' = "escaped"
                /\ fError' = [kind |-> out.kind]
                /\ UNCHANGED <<fResult, delays>>
           ELSE IF attempt = retries
           THEN /\ fPc' = "raised"
                /\ fError' = [kind |-> "FetchError", message |-> "Failed to fetch url",
                              cause |-> out.kind]
                /\ UNCHANGED <<fResult, delays>>
           ELSE /\ fPc' = "sleeping"
                /\ delays' = Append(delays, BackoffDelay(attempt))
                /\ UNCHANGED <<fResult, fError>>
    /\ UNCHANGED <<retries, attempt, walkVars, mainVars, writeVars, awVars,
                   browserVars, handleVars>>

\* asyncio.sleep returns; the for loop advances.
FetchWake ==
    /\ fPc = "sleeping"
    /\ fPc' = "attempting"
    /\ attempt' = attempt + 1
    /\ UNCHANGED <<retries, attemptLog, delays, fResult, fError, walkVars,
                   mainVars, writeVars, awVars, browserVars, handleVars>>

FetchNext == FetchCall \/ FetchAttempt \/ FetchWake

(***************************************************************************)
(* parse_product_links.py: the pagination walk of one subcategory          *)
(***************************************************************************)

\* Bounds: the listing pages of the subcategory, and the fetches of one walk
\* (the loop of parse has no bound of its own).
NumPages == 3
MaxFetches == 5

Pages == 1..NumPages

\* Page 1 is the subcategory URL itself (the unpaginated base URL).
BaseUrl == 1

\* A listing page as the server holds it: whether it lists a product, the
\* page its a[rel="next"] points to (0: no such link), and whether a request
\* for it is redirected to the base URL.
PageSpecs == [hasLinks : BOOLEAN, next : 0..NumPages, redirect : BOOLEAN]

Sites == {s \in [Pages -> PageSpecs] : ~s[BaseUrl].redirect}

\* fetch_html: session.get follows redirects and only the body is returned,
\* so the caller sees the body of the page that was served in the end.
Served(s, url) == IF s[url].redirect THEN BaseUrl ELSE url

\* parse_links(html, url): the product links of the served body.
parse_links(s, p) == IF s[p].hasLinks THEN <<p>> ELSE <<>>

\* find_next_page(html, page_url): the rel="next" target of the served body,
\* 0 for None.
find_next_page(s, p) == s[p].next

\* The links extracted by the first m fetches of a log, in fetch order.
RECURSIVE LinksOfFetches(_, _)
LinksOfFetches(log, m) ==
    IF m = 0 THEN <<>> ELSE LinksOfFetches(log, m - 1) \o log[m].links

\* A loop that returns at the last page ahead of extending results.
ExtendUnlessLast(res, found, last) == IF last THEN res ELSE res \o found

\* results.extend(link.__dict__ for link in links): on every page fetched,
\* the last one included, ahead of the test of next_page.
Extend(res, found, last) == res \o found

WalkInit ==
    /\ wPc = "idle"
    /\ site \in Sites
    /\ page_url = 0
    /\ results = <<>>
    /\ fetchLog = <<>>
    /\ wReturn = NoValue

\* parse(url): page_url = url, results = [].
WalkCall ==
    /\ wPc = "idle"
    /\ wPc' = "fetching"
    /\ page_url' = BaseUrl
    /\ UNCHANGED <<site, results, fetchLog, wReturn, fetchVars, mainVars,
                   writeVars, awVars, browserVars, handleVars>>

\* One iteration of the while loop: fetch page_url, extend results by the
\* links found, follow the next link unless it is missing or equal to
\* page_url.
WalkFetch ==
    /\ wPc = "fetching"
    /\ Len(fetchLog) < MaxFetches
    /\ LET p == Served(site, page_url)
           found == parse_links(site, p)
           next_page == find_next_page(site, p)
           last == ~(next_page # 0 /\ next_page # page_url)
       IN /\ fetchLog' = Append(fetchLog,
                [url |-> page_url, served |-> p, links |-> found])
          /\ results' = Extend(results, found, last)
          /\ IF ~last
             THEN /\ page_url' = next_page
                  /\ wPc' = "fetching"
                  /\ wReturn' = wReturn
             ELSE /\ wPc' = "returned"
                  /\ wReturn' = [kind |-> "list", links |-> results']
                  /\ page_url' = page_url
    /\ UNCHANGED <<site, fetchVars, mainVars, writeVars, awVars, browserVars,
                   handleVars>>

\* fetch_html raises (raise_for_status, a network error): nothing in parse
\* catches it.
WalkFetchFails ==
    /\ wPc = "fetching"
    /\ Len(fetchLog) < MaxFetches
    /\ wPc' = "raised"
    /\ fetchLog' = Append(fetchLog,
            [url |-> page_url, served |-> 0, links |-> <<>>])
    /\ UNCHANGED <<site, page_url, results, wReturn, fetchVars, mainVars,
                   writeVars, awVars, browserVars, handleVars>>

WalkNext == WalkCall \/ WalkFetch \/ WalkFetchFails

(***************************************************************************)
(* utils.atomic_writer and parse_all_products.py: main, the link stage,    *)
(* the product tasks                                                       *)
(***************************************************************************)

\* Bounds: the product links of a run, the subcategories of the category,
\* and the largest product_concurrency tried.
MaxUrls == 2
MaxSubcats == 2
MaxConc == 2

\* Product URLs, named in the order of their first discovery.
Urls == 1..MaxUrls

\* for attempt in range(3) ... if attempt == 2
StoreAttempts == 3
LastStoreAttempt == 2

NoFile == [exists |-> FALSE, lines |-> <<>>]

\* A line that was in the destination file before the run.
OldLine == [url |-> 0, task |-> 0]

SeqsUpTo(n) == UNION {[1..m -> Urls] : m \in 0..n}

Max(S) == IF S = {} THEN 0 ELSE CHOOSE x \in S : \A y \in S : y <= x

\* URL k+1 is first seen only after URL k (the URLs are interchangeable).
InDiscoveryOrder(l) ==
    \A j \in 1..Len(l) : l[j] <= 1 + Max({l[m] : m \in 1..(j - 1)})

\* What awaiting parse_product.parse can end in.  The handler of
\* parse_and_store is written for a product dict, FetchError and ParseError.
\* parse_product.fetch_html re-raises aiohttp.ClientError and
\* asyncio.TimeoutError as they are ("ClientError"); parse_product lets an
\* IndexError out of created_tag.strip().split()[-2]; asdict(Product) has no
\* "url" key (hasUrl = FALSE).
ParseResults ==
    [kind : {"product"}, hasUrl : BOOLEAN]
        \cup {[kind |-> e] : e \in {"FetchError", "ParseError", "ClientError", "IndexError"}}

\* except FetchError / except ParseError around the parse call.
ParseHandled(kind) == kind \in {"FetchError", "ParseError"}

\* atomic_writer with the os.replace moved into the finally clause.
AtomicWriterExitAlways(bodyRaised, replaceOk, t, d) ==
    IF replaceOk THEN [exists |-> TRUE, lines |-> t.lines] ELSE d

\* The exit of atomic_writer: the destination file afterwards.  The handle is
\* closed, os.replace runs only when the body did not raise, and the finally
\* clause removes whatever is left at tmp_path.
AtomicWriterExit(bodyRaised, replaceOk, t, d) ==
    IF ~bodyRaised /\ replaceOk THEN [exists |-> TRUE, lines |-> t.lines] ELSE d

\* db.products.update_one({"_id": key}, {"$set": product}, upsert=True):
\* the document of task i is stored under key, replacing the one there.
Upsert(st, key, i) == [k \in DOMAIN st \cup {key} |-> IF k = key THEN i ELSE st[k]]

\* The except PyMongoError clause without its `return`: after the last
\* failed attempt the loop ends and the line is written all the same.
AfterUpsertFailureNoReturn(n) ==
    IF n = LastStoreAttempt THEN "write" ELSE "sleep"

\* A delay of 2 * attempt seconds with attempt counted from 0.
StoreBackoffFromZero(n) == 2 * n

\* asyncio.sleep(2 * (attempt + 1)) after the failed attempt n of range(3).
StoreBackoff(n) == 2 * (n + 1)

\* except PyMongoError: return on the last attempt, sleep otherwise.
AfterUpsertFailure(n) ==
    IF n = LastStoreAttempt THEN "return" ELSE "sleep"

\* The semaphore released by hand after the body, with no finally: an
\* exception or a cancellation inside the body keeps the permit.
ReleaseOnReturnOnly(path, s) ==
    IF path \in {"raised", "cancelled"} THEN s ELSE s + 1

\* The exit of `async with sem` on the way `path` out of its body ("stored",
\* "skipped", "dropped", "raised", "cancelled"): sem.release() on each.
ReleaseOn(path, s) == s + 1

\* The tasks inside `async with sem`.
InGate == {"parsing", "upserting", "sleeping", "locking", "writing"}

NewTask(u) ==
    [url |-> u, pc |-> "new", attempt |-> 0, delays |-> <<>>,
     debug_path |-> FALSE, upserted |-> FALSE]

Finished == {"stored", "skipped", "dropped", "raised", "cancelled"}

MainInit ==
    /\ mainPc = "start"
    /\ concurrency \in 1..MaxConc
    /\ debug_dir \in BOOLEAN
    /\ subcats = 0
    /\ walked = 0
    /\ links = <<>>
    /\ tasks = <<>>
    /\ sem = 0
    /\ html_saved = FALSE
    /\ gatherExc = "none"
    /\ store = <<>>
    /\ tmp = NoFile
    /\ dest0 \in {NoFile, [exists |-> TRUE, lines |-> <<OldLine>>]}
    /\ dest = dest0
    /\ mongo = "unopened"
    /\ clientCloses = 0
    /\ closeBrowserCalls = 0
    /\ playwright = None
    /\ browser = None

\* close_browser: the browser held is closed and forgotten, then the
\* Playwright instance held is stopped and forgotten.
CloseBrowser ==
    /\ closeBrowserCalls' = closeBrowserCalls + 1
    /\ browser' = None
    /\ playwright' = None

\* An exception leaves a main that has no finally clause and closes nothing.
MainFailsNoCleanup ==
    /\ mainPc' = "failed"
    /\ UNCHANGED <<mongo, clientCloses, closeBrowserCalls, handleVars>>

\* The way out of main on an exception: open_mongo's finally closes the
\* client if it was opened, main's finally calls close_browser.
MainFails ==
    /\ mainPc' = "failed"
    /\ mongo' = IF mongo = "open" THEN "closed" ELSE mongo
    /\ clientCloses' = IF mongo = "open" THEN clientCloses + 1 ELSE clientCloses
    /\ CloseBrowser

\* open_mongo: AsyncIOMotorClient(uri).
MainOpenMongo ==
    /\ mainPc = "start"
    /\ mainPc' = "categories"
    /\ mongo' = "open"
    /\ UNCHANGED <<concurrency, debug_dir, subcats, walked, links, tasks, sem,
                   html_saved, gatherExc, store, tmp, dest, dest0,
                   clientCloses, closeBrowserCalls, fetchVars, walkVars,
                   writeVars, awVars, browserVars, handleVars>>

\* AsyncIOMotorClient(uri) raises (a malformed URI).
MainOpenMongoFails ==
    /\ mainPc = "start"
    /\ MainFails
    /\ UNCHANGED <<concurrency, debug_dir, subcats, walked, links, tasks, sem,
                   html_saved, gatherExc, store, tmp, dest, dest0, fetchVars,
                   walkVars, writeVars, awVars, browserVars>>

\* gather_product_links: parse_categories.parse returns n subcategories.
CategoriesFound(n) ==
    /\ mainPc = "categories"
    /\ mainPc' = "links"
    /\ subcats' = n
    /\ UNCHANGED <<concurrency, debug_dir, walked, links, tasks, sem,
                   html_saved, gatherExc, store, tmp, dest, dest0, mongo,
                   clientCloses, closeBrowserCalls, fetchVars, walkVars,
                   writeVars, awVars, browserVars, handleVars>>

MainCategories == \E n \in 0..MaxSubcats : CategoriesFound(n)

\* parse_categories.parse raises: nothing catches it before main's finally.
MainCategoriesFails ==
    /\ mainPc = "categories"
    /\ MainFails
    /\ UNCHANGED <<concurrency, debug_dir, subcats, walked, links, tasks, sem,
                   html_saved, gatherExc, store, tmp, dest, dest0, fetchVars,
                   walkVars, writeVars, awVars, browserVars>>

\* `for sub in subcats` takes the next subcategory and awaits its walk,
\* parse_product_links.parse(url).  The loop awaits one walk at a time.
MainWalkStart ==
    /\ mainPc = "links"
    /\ walked < subcats
    /\ mainPc' = "walking"
    /\ UNCHANGED <<concurrency, debug_dir, subcats, walked, links, tasks, sem,
                   html_saved, gatherExc, store, tmp, dest, dest0, mongo,
                   clientCloses, closeBrowserCalls, fetchVars, walkVars,
                   writeVars, awVars, browserVars, handleVars>>

\* The walk returns sub_links and links.extend appends them all.
WalkReturned(sub_links) ==
    /\ mainPc = "walking"
    /\ mainPc' = "links"
    /\ links' = links \o sub_links
    /\ walked' = walked + 1
    /\ UNCHANGED <<concurrency, debug_dir, subcats, tasks, sem, html_saved,
                   gatherExc, store, tmp, dest, dest0, mongo, clientCloses,
                   closeBrowserCalls, fetchVars, walkVars, writeVars, awVars,
                   browserVars, handleVars>>

MainWalkSubcat ==
    \E sub_links \in SeqsUpTo(MaxUrls - Len(links)) :
        /\ InDiscoveryOrder(links \o sub_links)
        /\ WalkReturned(sub_links)

\* The walk of a subcategory raises: the loop has no try, so the exception
\* leaves gather_product_links and main.
MainWalkFails ==
    /\ mainPc = "walking"
    /\ MainFails
    /\ UNCHANGED <<concurrency, debug_dir, subcats, walked, links, tasks, sem,
                   html_saved, gatherExc, store, tmp, dest, dest0, fetchVars,
                   walkVars, writeVars, awVars, browserVars>>

\* gather_product_links returns; atomic_writer creates and opens the temporary
\* file; gather_products creates sem, write_lock, html_saved and one task per
\* element of urls.
MainStartGather ==
    /\ mainPc = "links"
    /\ walked = subcats
    /\ mainPc' = "gather"
    /\ tmp' = [exists |-> TRUE, lines |-> <<>>]
    /\ sem' = concurrency
    /\ tasks' = [i \in 1..Len(links) |-> NewTask(links[i])]
    /\ UNCHANGED <<concurrency, debug_dir, subcats, walked, links, html_saved,
                   gatherExc, store, dest, dest0, mongo, clientCloses,
                   closeBrowserCalls, fetchVars, walkVars, writeVars, awVars,
                   browserVars, handleVars>>

\* tempfile.mkstemp or open raises: the output cannot be opened.
MainWriterFails ==
    /\ mainPc = "links"
    /\ walked = subcats
    /\ MainFails
    /\ UNCHANGED <<concurrency, debug_dir, subcats, walked, links, tasks, sem,
                   html_saved, gatherExc, store, tmp, dest, dest0, fetchVars,
                   walkVars, writeVars, awVars, browserVars>>

\* A task leaves parse_and_store with an exception: `async with sem`
\* releases, and gather hands the first such exception to its awaiter.
TaskRaises(i, e) ==
    /\ tasks' = [tasks EXCEPT ![i].pc = "raised"]
    /\ gatherExc' = IF gatherExc = "none" THEN e ELSE gatherExc

\* A task that takes the debug path and leaves the event unset.
HtmlSavedNeverSet(saved, first) == saved

\* html_saved after the task looked at it: html_saved.set() in the same
\* synchronous stretch as the is_set() test when the task is the first.
HtmlSavedAfter(saved, first) == saved \/ first

\* A task passes `async with sem`, decides on the debug path and calls
\* parse_product.parse(url, debug_html_path=debug_path).  parse_product.parse
\* as it stands takes url only, so the call itself raises TypeError; a parse
\* that takes the keyword suspends on its fetch.
TaskStart ==
    \E i \in DOMAIN tasks :
        /\ mainPc = "gather"
        /\ tasks[i].pc = "new"
        /\ sem > 0
        /\ LET first == debug_dir /\ ~html_saved IN
            /\ html_saved' = HtmlSavedAfter(html_saved, first)
            /\ \/ /\ tasks' = [tasks EXCEPT ![i].pc = "parsing", ![i].debug_path = first]
                  /\ sem' = sem - 1
                  /\ UNCHANGED gatherExc
               \/ /\ tasks' = [tasks EXCEPT ![i].pc = "raised", ![i].debug_path = first]
                  /\ gatherExc' = IF gatherExc = "none" THEN "TypeError" ELSE gatherExc
                  /\ sem' = ReleaseOn("raised", sem - 1)
        /\ UNCHANGED <<mainPc, concurrency, debug_dir, subcats, walked, links,
                       store, tmp, dest, dest0, mongo, clientCloses,
                       closeBrowserCalls, fetchVars, walkVars, writeVars,
                       awVars, browserVars, handleVars>>

\* parse_product.parse ends.  FetchError and ParseError are logged and the
\* task returns; any other exception leaves the task; a product starts the
\* upsert loop, whose filter {"_id": product["url"]} raises KeyError for a
\* product without that key.  R: what the parse calls of the run can end in.
ParseEnds(R) ==
    \E i \in DOMAIN tasks :
        /\ mainPc = "gather"
        /\ tasks[i].pc = "parsing"
        /\ \E r \in R :
            IF r.kind = "product"
            THEN IF r.hasUrl
                 THEN /\ tasks' = [tasks EXCEPT ![i].pc = "upserting"]
                      /\ UNCHANGED <<sem, gatherExc>>
                 ELSE /\ TaskRaises(i, "KeyError")
                      /\ sem' = ReleaseOn("raised", sem)
            ELSE IF ParseHandled(r.kind)
            THEN /\ tasks' = [tasks EXCEPT ![i].pc = "skipped"]
                 /\ sem' = ReleaseOn("skipped", sem)
                 /\ UNCHANGED gatherExc
            ELSE /\ TaskRaises(i, r.kind)
                 /\ sem' = ReleaseOn("raised", sem)
        /\ UNCHANGED <<mainPc, concurrency, debug_dir, subcats, walked, links,
                       html_saved, store, tmp, dest, dest0, mongo,
                       clientCloses, closeBrowserCalls, fetchVars, walkVars,
                       writeVars, awVars, browserVars, handleVars>>

TaskParsed == ParseEnds(ParseResults)

\* update_one succeeds: break, json.dumps, and under write_lock the line is
\* written, flushed and synced; the task returns.  Nothing between the
\* acquisition of write_lock and its release awaits.
TaskUpserted ==
    \E i \in DOMAIN tasks :
        /\ mainPc = "gather"
        /\ tasks[i].pc = "upserting"
        /\ store' = Upsert(store, tasks[i].url, i)
        /\ tmp' = [tmp EXCEPT !.lines = Append(@, [url |-> tasks[i].url, task |-> i])]
        /\ tasks' = [tasks EXCEPT ![i].pc = "stored", ![i].upserted = TRUE]
        /\ sem' = ReleaseOn("stored", sem)
        /\ UNCHANGED <<mainPc, concurrency, debug_dir, subcats, walked, links,
                       html_saved, gatherExc, dest, dest0, mongo,
                       clientCloses, closeBrowserCalls, fetchVars, walkVars,
                       writeVars, awVars, browserVars, handleVars>>

\* update_one raises PyMongoError: on the last attempt the task logs and
\* returns, otherwise it sleeps 2 * (attempt + 1) seconds.  (A loop that
\* ended without break or return would go on to write the line.)
TaskUpsertFails ==
    \E i \in DOMAIN tasks :
        /\ mainPc = "gather"
        /\ tasks[i].pc = "upserting"
        /\ LET after == AfterUpsertFailure(tasks[i].attempt) IN
            IF after = "return"
            THEN /\ tasks' = [tasks EXCEPT ![i].pc = "dropped"]
                 /\ sem' = ReleaseOn("dropped", sem)
                 /\ UNCHANGED tmp
            ELSE IF after = "sleep"
            THEN /\ tasks' = [tasks EXCEPT
                                ![i].pc = "sleeping",
                                ![i].delays = Append(@, StoreBackoff(tasks[i].attempt))]
                 /\ UNCHANGED <<sem, tmp>>
            ELSE /\ tasks' = [tasks EXCEPT ![i].pc = "stored"]
                 /\ tmp' = [tmp EXCEPT !.lines =
                                Append(@, [url |-> tasks[i].url, task |-> i])]
                 /\ sem' = ReleaseOn("stored", sem)
        /\ UNCHANGED <<mainPc, concurrency, debug_dir, subcats, walked, links,
                       html_saved, gatherExc, store, dest, dest0, mongo,
                       clientCloses, closeBrowserCalls, fetchVars, walkVars,
                       writeVars, awVars, browserVars, handleVars>>

\* asyncio.sleep returns and the next update_one is issued.
TaskWake ==
    \E i \in DOMAIN tasks :
        /\ mainPc = "gather"
        /\ tasks[i].pc = "sleeping"
        /\ tasks[i].attempt + 1 < StoreAttempts
        /\ tasks' = [tasks EXCEPT ![i].pc = "upserting", ![i].attempt = @ + 1]
        /\ UNCHANGED <<mainPc, concurrency, debug_dir, subcats, walked, links,
                       sem, html_saved, gatherExc, store, tmp, dest, dest0,
                       mongo, clientCloses, closeBrowserCalls, fetchVars,
                       walkVars, writeVars, awVars, browserVars, handleVars>>

\* Every task returned: gather returns, atomic_writer closes the handle and
\* renames the temporary file into place, open_mongo closes the client and
\* main's finally calls close_browser.
MainGatherReturns ==
    /\ mainPc = "gather"
    /\ \A i \in DOMAIN tasks : tasks[i].pc \in {"stored", "skipped", "dropped"}
    /\ dest' = AtomicWriterExit(FALSE, TRUE, tmp, dest)
    /\ tmp' = NoFile
    /\ mainPc' = "done"
    /\ mongo' = "closed"
    /\ clientCloses' = clientCloses + 1
    /\ CloseBrowser
    /\ UNCHANGED <<concurrency, debug_dir, subcats, walked, links, tasks, sem,
                   html_saved, gatherExc, store, dest0, fetchVars, walkVars,
                   writeVars, awVars, browserVars>>

\* As MainGatherReturns, but os.replace raises (the destination is a
\* directory, say): the finally clause removes the temporary file and the
\* exception leaves main.
MainReplaceFails ==
    /\ mainPc = "gather"
    /\ \A i \in DOMAIN tasks : tasks[i].pc \in {"stored", "skipped", "dropped"}
    /\ dest' = AtomicWriterExit(FALSE, FALSE, tmp, dest)
    /\ tmp' = NoFile
    /\ MainFails
    /\ UNCHANGED <<concurrency, debug_dir, subcats, walked, links, tasks, sem,
                   html_saved, gatherExc, store, dest0, fetchVars, walkVars,
                   writeVars, awVars, browserVars>>

\* The permits given back by n cancelled tasks that were inside the gate.
RECURSIVE ReleaseCancelled(_, _)
ReleaseCancelled(n, s) ==
    IF n = 0 THEN s ELSE ReleaseCancelled(n - 1, ReleaseOn("cancelled", s))

\* gather raises the first exception of a task.  The exception leaves the
\* with block of atomic_writer and main; nothing on that way suspends, so the
\* tasks still pending are cancelled by asyncio.run without running again:
\* CancelledError is thrown into each at its await, and the ones inside
\* `async with sem` release it on the way out.
MainGatherRaises ==
    /\ mainPc = "gather"
    /\ gatherExc # "none"
    /\ dest' = AtomicWriterExit(TRUE, TRUE, tmp, dest)
    /\ tmp' = NoFile
    /\ tasks' = [i \in DOMAIN tasks |->
                    IF tasks[i].pc \in Finished THEN tasks[i]
                    ELSE [tasks[i] EXCEPT !.pc = "cancelled"]]
    /\ sem' = ReleaseCancelled(
                  Cardinality({i \in DOMAIN tasks : tasks[i].pc \in InGate}), sem)
    /\ MainFails
    /\ UNCHANGED <<concurrency, debug_dir, subcats, walked, links, html_saved,
                   gatherExc, store, dest0, fetchVars, walkVars, writeVars,
                   awVars, browserVars>>

MainNext ==
    \/ MainOpenMongo \/ MainOpenMongoFails
    \/ MainCategories \/ MainCategoriesFails
    \/ MainWalkStart \/ MainWalkSubcat \/ MainWalkFails
    \/ MainStartGather \/ MainWriterFails
    \/ TaskStart \/ TaskParsed \/ TaskUpserted \/ TaskUpsertFails \/ TaskWake
    \/ MainGatherReturns \/ MainReplaceFails \/ MainGatherRaises

(***************************************************************************)
(* The block under write_lock of parse_and_store                           *)
(***************************************************************************)

NumWriters == 3
Writers == 1..NumWriters
NoWriter == 0

\* What out_fh.write(data + "\n") of writer w appends: the serialised
\* product and then its newline.
Line(w) == <<[task |-> w, part |-> "data"], [task |-> w, part |-> "newline"]>>

\* A lock that lets every task in.
LockFreeAlways(l) == TRUE

\* write_lock.acquire() returns only when the lock is not held.
LockFree(l) == l = NoWriter

\* The tasks that reach the block: urls whose upsert succeeded.
WriteInit ==
    /\ wrPc = [w \in Writers |-> "upserting"]
    /\ write_lock = NoWriter
    /\ fhBuffer = <<>>
    /\ osFile = <<>>
    /\ disk = <<>>

\* update_one returned, json.dumps built data: the task asks for write_lock.
WriterArrives ==
    \E w \in Writers :
        /\ wrPc[w] = "upserting"
        /\ wrPc' = [wrPc EXCEPT ![w] = "waiting"]
        /\ UNCHANGED <<write_lock, fhBuffer, osFile, disk, fetchVars,
                       walkVars, mainVars, browserVars, awVars, handleVars>>

\* `async with write_lock`: the lock is taken.
WriterAcquires ==
    \E w \in Writers :
        /\ wrPc[w] = "waiting"
        /\ LockFree(write_lock)
        /\ write_lock' = w
        /\ wrPc' = [wrPc EXCEPT ![w] = "write"]
        /\ UNCHANGED <<fhBuffer, osFile, disk, fetchVars, walkVars, mainVars,
                       browserVars, awVars, handleVars>>

\* out_fh.write(data + "\n"): one call with the whole line.
WriterWrites ==
    \E w \in Writers :
        /\ wrPc[w] = "write"
        /\ fhBuffer' = fhBuffer \o Line(w)
        /\ wrPc' = [wrPc EXCEPT ![w] = "flush"]
        /\ UNCHANGED <<write_lock, osFile, disk, fetchVars, walkVars,
                       mainVars, browserVars, awVars, handleVars>>

\* out_fh.flush(): the buffer goes to the operating system.
WriterFlushes ==
    \E w \in Writers :
        /\ wrPc[w] = "flush"
        /\ osFile' = osFile \o fhBuffer
        /\ fhBuffer' = <<>>
        /\ wrPc' = [wrPc EXCEPT ![w] = "fsync"]
        /\ UNCHANGED <<write_lock, disk, fetchVars, walkVars, mainVars,
                       browserVars, awVars, handleVars>>

\* os.fsync(out_fh.fileno()) and the end of the block: what the operating
\* system holds goes to the disk, then write_lock is released.
WriterSyncs ==
    \E w \in Writers :
        /\ wrPc[w] = "fsync"
        /\ disk' = disk \o osFile
        /\ osFile' = <<>>
        /\ write_lock' = IF write_lock = w THEN NoWriter ELSE write_lock
        /\ wrPc' = [wrPc EXCEPT ![w] = "done"]
        /\ UNCHANGED <<fhBuffer, fetchVars, walkVars, mainVars, browserVars,
                       awVars, handleVars>>

\* flush or fsync raises OSError: the exception leaves the block, which
\* releases write_lock, and the task.
WriterFails ==
    \E w \in Writers :
        /\ wrPc[w] \in {"flush", "fsync"}
        /\ write_lock' = IF write_lock = w THEN NoWriter ELSE write_lock
        /\ wrPc' = [wrPc EXCEPT ![w] = "raised"]
        /\ UNCHANGED <<fhBuffer, osFile, disk, fetchVars, walkVars, mainVars,
                       browserVars, awVars, handleVars>>

WriteNext ==
    \/ WriterArrives \/ WriterAcquires \/ WriterWrites \/ WriterFlushes
    \/ WriterSyncs \/ WriterFails

(***************************************************************************)
(* utils.atomic_writer: one with-block, call by call                       *)
(***************************************************************************)

\* Bound: the lines the body of the with-block writes.
MaxLines == 2

\* What the body may write as one line.
LineTexts == {"a", "b"}

\* A finally clause that leaves tmp_path alone.
NotRemoved(t) == t

\* os.remove(tmp_path), FileNotFoundError passed over: nothing is at
\* tmp_path afterwards, whether something was there or not.
Removed(t) == NoFile

\* atomic_writer(path) is about to be entered; a file may be at path.
AwInit ==
    /\ awPc = "idle"
    /\ fh = "none"
    /\ written = <<>>
    /\ tmp_file = NoFile
    /\ path0 \in {NoFile, [exists |-> TRUE, lines |-> <<"old">>]}
    /\ path_file = path0
    /\ fhAtReplace = "none"

\* mkstemp creates the empty file at tmp_path, os.close(fd), and inside the
\* try open(tmp_path, "w") gives fh to the body.
AwEnter ==
    /\ awPc = "idle"
    /\ tmp_file' = [exists |-> TRUE, lines |-> <<>>]
    /\ fh' = "open"
    /\ awPc' = "body"
    /\ UNCHANGED <<written, path_file, path0, fhAtReplace, fetchVars, walkVars,
                   mainVars, handleVars, browserVars, writeVars>>

\* mkstemp raises ahead of the try: no file was created at tmp_path.
AwMkstempFails ==
    /\ awPc = "idle"
    /\ awPc' = "raised"
    /\ UNCHANGED <<fh, written, tmp_file, path_file, path0, fhAtReplace,
                   fetchVars, walkVars, mainVars, handleVars, browserVars,
                   writeVars>>

\* open raises inside the try: the finally clause runs with the empty file
\* of mkstemp at tmp_path.
AwOpenFails ==
    /\ awPc = "idle"
    /\ tmp_file' = [exists |-> TRUE, lines |-> <<>>]
    /\ awPc' = "finally_exc"
    /\ UNCHANGED <<fh, written, path_file, path0, fhAtReplace, fetchVars,
                   walkVars, mainVars, handleVars, browserVars, writeVars>>

\* The body writes a line through fh; it stays in the buffer of fh.
AwBodyWrites ==
    /\ awPc = "body"
    /\ Len(written) < MaxLines
    /\ \E text \in LineTexts : written' = Append(written, text)
    /\ UNCHANGED <<awPc, fh, tmp_file, path_file, path0, fhAtReplace,
                   fetchVars, walkVars, mainVars, handleVars, browserVars,
                   writeVars>>

\* The body flushes fh: what was written so far is in the file at tmp_path.
AwBodyFlushes ==
    /\ awPc = "body"
    /\ tmp_file.lines # written
    /\ tmp_file' = [tmp_file EXCEPT !.lines = written]
    /\ UNCHANGED <<awPc, fh, written, path_file, path0, fhAtReplace,
                   fetchVars, walkVars, mainVars, handleVars, browserVars,
                   writeVars>>

\* The body ends: `with open(...) as fh` closes fh, which flushes it.
AwBodyEnds ==
    /\ awPc = "body"
    /\ fh' = "closed"
    /\ tmp_file' = [tmp_file EXCEPT !.lines = written]
    /\ awPc' = "replace"
    /\ UNCHANGED <<written, path_file, path0, fhAtReplace, fetchVars, walkVars,
                   mainVars, handleVars, browserVars, writeVars>>

\* The body raises: fh is closed by its with, os.replace is skipped.
AwBodyRaises ==
    /\ awPc = "body"
    /\ fh' = "closed"
    /\ tmp_file' = [tmp_file EXCEPT !.lines = written]
    /\ awPc' = "finally_exc"
    /\ UNCHANGED <<written, path_file, path0, fhAtReplace, fetchVars, walkVars,
                   mainVars, handleVars, browserVars, writeVars>>

\* os.replace(tmp_path, path): the file at tmp_path becomes the file at path.
AwReplace ==
    /\ awPc = "replace"
    /\ fhAtReplace' = fh
    /\ path_file' = tmp_file
    /\ tmp_file' = NoFile
    /\ awPc' = "finally"
    /\ UNCHANGED <<fh, written, path0, fetchVars, walkVars, mainVars,
                   handleVars, browserVars, writeVars>>

\* os.replace raises (path is a directory, say): both files stay.
AwReplaceFails ==
    /\ awPc = "replace"
    /\ fhAtReplace' = fh
    /\ awPc' = "finally_exc"
    /\ UNCHANGED <<fh, written, tmp_file, path_file, path0, fetchVars,
                   walkVars, mainVars, handleVars, browserVars, writeVars>>

\* The finally clause, then the with-block is left: normally, or by the
\* exception that is on its way.
AwFinally ==
    /\ awPc \in {"finally", "finally_exc"}
    /\ tmp_file' = Removed(tmp_file)
    /\ awPc' = IF awPc = "finally" THEN "exited" ELSE "raised"
    /\ UNCHANGED <<fh, written, path_file, path0, fhAtReplace, fetchVars,
                   walkVars, mainVars, handleVars, browserVars, writeVars>>

AwNext ==
    \/ AwEnter \/ AwMkstempFails \/ AwOpenFails
    \/ AwBodyWrites \/ AwBodyFlushes \/ AwBodyEnds \/ AwBodyRaises
    \/ AwReplace \/ AwReplaceFails \/ AwFinally

(***************************************************************************)
(* gather_products on its own, the write under write_lock as steps of the  *)
(* tasks                                                                   *)
(***************************************************************************)

\* gather_products(db, urls, out_fh, concurrency) is called: sem and
\* write_lock are created and one task per element of urls is gathered.
GatherInit ==
    /\ mainPc = "gather"
    /\ concurrency \in 1..MaxConc
    /\ debug_dir = FALSE
    /\ subcats = 1
    /\ walked = 1
    /\ links \in {l \in SeqsUpTo(MaxUrls) : InDiscoveryOrder(l)}
    /\ tasks = [i \in 1..Len(links) |-> NewTask(links[i])]
    /\ sem = concurrency
    /\ html_saved = FALSE
    /\ gatherExc = "none"
    /\ store = <<>>
    /\ tmp = [exists |-> TRUE, lines |-> <<>>]
    /\ dest0 = NoFile
    /\ dest = dest0
    /\ mongo = "open"
    /\ clientCloses = 0
    /\ closeBrowserCalls = 0
    /\ playwright = None
    /\ browser = None

\* A block that is left with write_lock still held.
LockKept(l) == l

\* write_lock after the exit of `async with write_lock`.
LockReleased(l) == NoWriter

\* update_one succeeds: break, json.dumps, and the task asks for write_lock.
TaskUpsertReturns ==
    \E i \in DOMAIN tasks :
        /\ mainPc = "gather"
        /\ tasks[i].pc = "upserting"
        /\ store' = Upsert(store, tasks[i].url, i)
        /\ tasks' = [tasks EXCEPT ![i].pc = "locking", ![i].upserted = TRUE]
        /\ UNCHANGED <<mainPc, concurrency, debug_dir, subcats, walked, links,
                       sem, html_saved, gatherExc, tmp, dest, dest0, mongo,
                       clientCloses, closeBrowserCalls, fetchVars, walkVars,
                       writeVars, awVars, browserVars, handleVars>>

\* `async with write_lock`: the lock is taken, by a task that holds a permit
\* of sem and asks for nothing else until it has released the lock.
TaskLockAcquired ==
    \E i \in DOMAIN tasks :
        /\ mainPc = "gather"
        /\ tasks[i].pc = "locking"
        /\ LockFree(write_lock)
        /\ write_lock' = i
        /\ tasks' = [tasks EXCEPT ![i].pc = "writing"]
        /\ UNCHANGED <<mainPc, concurrency, debug_dir, subcats, walked, links,
                       sem, html_saved, gatherExc, store, tmp, dest, dest0,
                       mongo, clientCloses, closeBrowserCalls, wrPc, fhBuffer,
                       osFile, disk, fetchVars, walkVars, browserVars, awVars,
                       handleVars>>

\* The line is written, flushed and synced, write_lock is released, then
\* sem, and the task returns.
TaskLineWritten ==
    \E i \in DOMAIN tasks :
        /\ mainPc = "gather"
        /\ tasks[i].pc = "writing"
        /\ tmp' = [tmp EXCEPT !.lines = Append(@, [url |-> tasks[i].url, task |-> i])]
        /\ write_lock' = LockReleased(write_lock)
        /\ tasks' = [tasks EXCEPT ![i].pc = "stored"]
        /\ sem' = ReleaseOn("stored", sem)
        /\ UNCHANGED <<mainPc, concurrency, debug_dir, subcats, walked, links,
                       html_saved, gatherExc, store, dest, dest0, mongo,
                       clientCloses, closeBrowserCalls, wrPc, fhBuffer,
                       osFile, disk, fetchVars, walkVars, browserVars, awVars,
                       handleVars>>

\* gather raises the first exception of a task; the tasks still pending are
\* cancelled at the await they are suspended in (none is suspended between
\* taking write_lock and releasing it).
GatherRaises ==
    /\ \A i \in DOMAIN tasks : tasks[i].pc # "writing"
    /\ MainGatherRaises

GatherNext ==
    \/ TaskStart \/ TaskParsed \/ TaskUpsertReturns \/ TaskUpsertFails
    \/ TaskWake \/ TaskLockAcquired \/ TaskLineWritten
    \/ MainGatherReturns \/ GatherRaises

(***************************************************************************)
(* One run of main on a small site where nothing fails                     *)
(***************************************************************************)

\* The product links of the one listing page of each subcategory: three in
\* the first, none in the second.
SiteLinks == <<<<1, 2, 3>>, <<>>>>

\* Every product page is fetched and parsed into a product.
SiteParseResults == {r \in ParseResults : r.kind = "product"}

SiteCategories == CategoriesFound(Len(SiteLinks))

SiteWalkSubcat == WalkReturned(SiteLinks[walked + 1])

SiteTaskParsed == ParseEnds(SiteParseResults)

\* main on that site: no fetch, no store call and no file operation fails.
SiteNext ==
    \/ MainOpenMongo \/ SiteCategories \/ MainWalkStart \/ SiteWalkSubcat
    \/ MainStartGather \/ TaskStart \/ SiteTaskParsed \/ TaskUpserted
    \/ MainGatherReturns \/ MainGatherRaises

(***************************************************************************)
(* utils.get_browser and utils._fetch_with_playwright under concurrent     *)
(* fetches, and close_browser at the end of the run                        *)
(***************************************************************************)

NumFetches == 2
Fetches == 1..NumFetches

\* No fetch has called get_browser yet; _playwright and _browser are None.
BrowserInit ==
    /\ brPc = [f \in Fetches |-> "idle"]
    /\ got = [f \in Fetches |-> None]
    /\ contexts = [f \in Fetches |-> "none"]
    /\ started = 0
    /\ launched = 0

\* A fetch calls _fetch_with_playwright, which calls get_browser: with
\* _browser unset it awaits async_playwright().start(), otherwise it gets
\* _browser back without suspending and awaits browser.new_context().
FetchGetBrowser ==
    \E f \in Fetches :
        /\ brPc[f] = "idle"
        /\ closeBrowserCalls = 0
        /\ IF browser = None
           THEN /\ brPc' = [brPc EXCEPT ![f] = "starting"]
                /\ UNCHANGED got
           ELSE /\ brPc' = [brPc EXCEPT ![f] = "new_context"]
                /\ got' = [got EXCEPT ![f] = browser]
        /\ UNCHANGED <<playwright, browser, contexts, started, launched,
                       fetchVars, walkVars, mainVars, writeVars, awVars>>

\* async_playwright().start() returns: _playwright is assigned and
\* chromium.launch is awaited.
FetchPlaywrightStarted ==
    \E f \in Fetches :
        /\ brPc[f] = "starting"
        /\ started' = started + 1
        /\ playwright' = started + 1
        /\ brPc' = [brPc EXCEPT ![f] = "launching"]
        /\ UNCHANGED <<browser, got, contexts, launched, fetchVars, walkVars,
                       mainVars, writeVars, awVars>>

\* chromium.launch returns a new browser process: _browser is assigned and
\* returned, and browser.new_context() is awaited.
FetchBrowserLaunched ==
    \E f \in Fetches :
        /\ brPc[f] = "launching"
        /\ launched' = launched + 1
        /\ browser' = launched + 1
        /\ got' = [got EXCEPT ![f] = launched + 1]
        /\ brPc' = [brPc EXCEPT ![f] = "new_context"]
        /\ UNCHANGED <<playwright, contexts, started, fetchVars, walkVars,
                       mainVars, writeVars, awVars>>

\* start() or launch() raises: the exception leaves get_browser and the
\* fetch; _browser stays unset.
FetchLaunchFails ==
    \E f \in Fetches :
        /\ brPc[f] \in {"starting", "launching"}
        /\ brPc' = [brPc EXCEPT ![f] = "raised"]
        /\ UNCHANGED <<playwright, browser, got, contexts, started, launched,
                       fetchVars, walkVars, mainVars, writeVars, awVars>>

\* browser.new_context() returns the context of this fetch, or raises.
FetchNewContext ==
    \E f \in Fetches :
        /\ brPc[f] = "new_context"
        /\ \/ /\ contexts' = [contexts EXCEPT ![f] = "open"]
              /\ brPc' = [brPc EXCEPT ![f] = "new_page"]
           \/ /\ brPc' = [brPc EXCEPT ![f] = "raised"]
              /\ UNCHANGED contexts
        /\ UNCHANGED <<playwright, browser, got, started, launched, fetchVars,
                       walkVars, mainVars, writeVars, awVars>>

\* context.new_page() returns and the try block is entered, or it raises
\* ahead of the try block, whose finally is the only context.close().
FetchNewPage ==
    \E f \in Fetches :
        /\ brPc[f] = "new_page"
        /\ \/ brPc' = [brPc EXCEPT ![f] = "in_try"]
           \/ brPc' = [brPc EXCEPT ![f] = "raised"]
        /\ UNCHANGED <<playwright, browser, got, contexts, started, launched,
                       fetchVars, walkVars, mainVars, writeVars, awVars>>

\* The try block ends, returning the page or raising (goto fails, the page
\* is a block page): finally closes the context.
FetchLeavesTry ==
    \E f \in Fetches :
        /\ brPc[f] = "in_try"
        /\ contexts' = [contexts EXCEPT ![f] = "closed"]
        /\ \E out \in {"returned", "raised"} : brPc' = [brPc EXCEPT ![f] = out]
        /\ UNCHANGED <<playwright, browser, got, started, launched, fetchVars,
                       walkVars, mainVars, writeVars, awVars>>

\* The run ends, every fetch being over: close_browser.
RunEnds ==
    /\ closeBrowserCalls = 0
    /\ \A f \in Fetches : brPc[f] \in {"idle", "returned", "raised"}
    /\ CloseBrowser
    /\ UNCHANGED <<mainPc, concurrency, debug_dir, subcats, walked, links,
                   tasks, sem, html_saved, gatherExc, store, tmp, dest, dest0,
                   mongo, clientCloses, browserVars, fetchVars, walkVars,
                   writeVars, awVars>>

BrowserNext ==
    \/ FetchGetBrowser \/ FetchPlaywrightStarted \/ FetchBrowserLaunched
    \/ FetchLaunchFails \/ FetchNewContext \/ FetchNewPage \/ FetchLeavesTry
    \/ RunEnds

(***************************************************************************)
(* Specifications                                                          *)
(***************************************************************************)

WalkIdle ==
    /\ wPc = "idle"
    /\ site = [p \in Pages |-> [hasLinks |-> FALSE, next |-> 0, redirect |-> FALSE]]
    /\ page_url = 0
    /\ results = <<>>
    /\ fetchLog = <<>>
    /\ wReturn = NoValue

MainIdle ==
    /\ mainPc = "idle"
    /\ concurrency = 1
    /\ debug_dir = FALSE
    /\ subcats = 0
    /\ walked = 0
    /\ links = <<>>
    /\ tasks = <<>>
    /\ sem = 0
    /\ html_saved = FALSE
    /\ gatherExc = "none"
    /\ store = <<>>
    /\ tmp = NoFile
    /\ dest0 = NoFile
    /\ dest = NoFile
    /\ mongo = "unopened"
    /\ clientCloses = 0
    /\ closeBrowserCalls = 0
    /\ playwright = None
    /\ browser = None

BrowserIdle ==
    /\ brPc = <<>>
    /\ got = <<>>
    /\ contexts = <<>>
    /\ started = 0
    /\ launched = 0

AwIdle ==
    /\ awPc = "idle"
    /\ fh = "none"
    /\ written = <<>>
    /\ tmp_file = NoFile
    /\ path_file = NoFile
    /\ path0 = NoFile
    /\ fhAtReplace = "none"

WriteIdle ==
    /\ wrPc = <<>>
    /\ write_lock = NoWriter
    /\ fhBuffer = <<>>
    /\ osFile = <<>>
    /\ disk = <<>>

\* The whole run of main.
Init ==
    MainInit /\ FetchInit /\ WalkIdle /\ BrowserIdle /\ WriteIdle /\ AwIdle
InitFetch ==
    FetchInit /\ WalkIdle /\ MainIdle /\ BrowserIdle /\ WriteIdle /\ AwIdle
InitWalk ==
    WalkInit /\ FetchInit /\ MainIdle /\ BrowserIdle /\ WriteIdle /\ AwIdle
Next == MainNext
Spec == Init /\ [][Next]_vars

\* The run of main on the site of SiteLinks.
InitSite ==
    MainInit /\ FetchInit /\ WalkIdle /\ BrowserIdle /\ WriteIdle /\ AwIdle
SpecSite == InitSite /\ [][SiteNext]_vars

\* gather_products with up to MaxUrls urls.  The event loop runs whatever can
\* run, and every fetch, store call and sleep ends: a step that stays
\* possible is taken.
InitGather ==
    GatherInit /\ FetchInit /\ WalkIdle /\ BrowserIdle /\ WriteIdle /\ AwIdle
SpecGather == InitGather /\ [][GatherNext]_vars /\ WF_vars(GatherNext)

\* One with-block of atomic_writer.
InitAtomic ==
    AwInit /\ FetchInit /\ WalkIdle /\ MainIdle /\ BrowserIdle /\ WriteIdle
SpecAtomic == InitAtomic /\ [][AwNext]_vars

\* One call of fetch_html_with_retries.
SpecFetch == InitFetch /\ [][FetchNext]_vars

\* One call of parse_product_links.parse on every site of Sites.
SpecWalk == InitWalk /\ [][WalkNext]_vars

\* NumWriters tasks of one gather_products going through the block under
\* write_lock.  The steps of the block are interleaved statement by
\* statement, which is finer than the event loop interleaves them (nothing
\* inside the block awaits).
\* NumFetches concurrent calls of _fetch_with_playwright in one run, then
\* close_browser.
InitBrowser ==
    BrowserInit /\ FetchInit /\ WalkIdle /\ MainIdle /\ WriteIdle /\ AwIdle
SpecBrowser == InitBrowser /\ [][BrowserNext]_vars

InitWrite ==
    WriteInit /\ FetchInit /\ WalkIdle /\ MainIdle /\ BrowserIdle /\ AwIdle
SpecWrite == InitWrite /\ [][WriteNext]_vars

(***************************************************************************)
(* Properties of fetch_html_with_retries (SpecFetch)                       *)
(***************************************************************************)

Last(q) == q[Len(q)]

\* C5: called with retries >= 1, fetch_html_with_retries returns the
\* (html, final_url) of the first attempt that succeeds and attempts nothing
\* after it; when all `retries` attempts fail, whatever they raised, it
\* raises FetchError with the last failure as its cause after exactly
\* `retries` attempts; no other exception leaves it.
C5_FirstSuccessOrFetchError ==
    /\ \A j \in 1..Len(attemptLog) :
        attemptLog[j].out.kind = "ok" => j = Len(attemptLog) /\ fPc = "returned"
    /\ fPc = "returned" =>
        /\ Len(attemptLog) >= 1
        /\ Last(attemptLog).out.kind = "ok"
        /\ fResult = [kind |-> "pair", html |-> Last(attemptLog).ans.html,
                      final_url |-> Last(attemptLog).ans.final_url]
    /\ fPc = "raised" =>
        /\ fError.kind = "FetchError"
        /\ Len(attemptLog) = retries
        /\ fError.cause = attemptLog[retries].out.kind
        /\ fError.cause \in {"RuntimeError", "Error", "Exception"}
    /\ fPc # "escaped"
    /\ Len(attemptLog) <= retries

\* All three attempts of a call with retries = 3 failed, the last one with
\* an exception that is neither RuntimeError nor playwright's Error.
C5_Witness ==
    /\ fPc = "raised"
    /\ retries = 3
    /\ attemptLog[1].out.kind = "RuntimeError"
    /\ attemptLog[2].out.kind = "Error"
    /\ attemptLog[3].out.kind = "Exception"
    /\ fError.cause = "Exception"

\* C6: the delay after failed attempt n (n < retries) is 2*n seconds,
\* delays occur only between attempts and none follows the last failed
\* attempt; failing on attempts 1 and 2 and succeeding on attempt 3 means
\* exactly the delays 2 and 4.
C6_LinearBackoffBetweenAttempts ==
    /\ \A n \in 1..Len(delays) :
        /\ delays[n] = 2 * n
        /\ n < retries
        /\ n <= Len(attemptLog)
        /\ attemptLog[n].out.kind # "ok"
    /\ fPc = "sleeping" => Len(delays) = Len(attemptLog)
    /\ fPc \in {"returned", "raised"} => Len(delays) = Len(attemptLog) - 1
    /\ fPc = "attempting" => Len(delays) = Len(attemptLog) /\ attempt = Len(delays) + 1
    /\ (fPc = "returned" /\ Len(attemptLog) = 3) => delays = <<2, 4>>

\* Attempts 1 and 2 failed, attempt 3 succeeded, and the caller saw the
\* delays 2 and 4.
C6_Witness ==
    /\ fPc = "returned"
    /\ Len(attemptLog) = 3
    /\ attemptLog[1].out.kind # "ok"
    /\ attemptLog[2].out.kind # "ok"
    /\ delays = <<2, 4>>

\* C7: a body holding a block phrase makes its attempt fail like a network
\* error does: the attempt is retried while attempts are left, the blocked
\* body is never returned, and a URL blocked on every attempt ends in the
\* same FetchError as a URL whose attempts all failed otherwise.
C7_BlockedIsTransient ==
    /\ \A j \in 1..Len(attemptLog) :
        LET a == attemptLog[j] IN
        (a.ans.kind = "page" /\ Lower(a.ans.html) \in BLOCK_PATTERNS) =>
            /\ a.out.kind = "RuntimeError"
            /\ j < retries =>
                (j < Len(attemptLog) \/ fPc \in {"sleeping", "attempting"})
            /\ j = retries => fPc = "raised"
    /\ fPc = "returned" => Lower(fResult.html) \notin BLOCK_PATTERNS
    /\ fPc = "raised" =>
        fError = [kind |-> "FetchError", message |-> "Failed to fetch url",
                  cause |-> fError.cause]

\* A page blocked in upper case on attempt 1, a clean page on attempt 2,
\* which is returned.
C7_Witness ==
    /\ fPc = "returned"
    /\ Len(attemptLog) = 2
    /\ attemptLog[1].ans = [kind |-> "page", html |-> "NE ROBOT", final_url |-> "url"]
    /\ fResult.html = "Tovar SmartCaptcha"

\* C22: whatever `retries` is, a call of fetch_html_with_retries that is
\* over returned an (html, final_url) pair or raised FetchError; it never
\* returns without a result.
C22_PairOrFetchError ==
    /\ fPc \notin {"returnedNone", "escaped"}
    /\ fPc = "returned" => fResult.kind = "pair"
    /\ fPc = "raised" => fError.kind = "FetchError"

(***************************************************************************)
(* Properties of the pagination walk (SpecWalk)                            *)
(***************************************************************************)

\* C8: when page k is the first page of a walk that yields zero product
\* links, the walk returns exactly the links of pages 1..k-1 and fetches
\* nothing after page k.
C8_StopsAtFirstEmptyPage ==
    \A k \in 1..Len(fetchLog) :
        ( /\ fetchLog[k].served # 0
          /\ fetchLog[k].links = <<>>
          /\ \A j \in 1..(k - 1) : fetchLog[j].links # <<>> )
        => /\ Len(fetchLog) = k
           /\ wPc = "returned"
           /\ wReturn = [kind |-> "list", links |-> LinksOfFetches(fetchLog, k - 1)]

\* C9: when the request for page k (k > 1) is redirected to the unpaginated
\* base URL, the walk stops and returns the links of pages 1..k-1 only.
C9_RedirectToBaseEndsWalk ==
    \A k \in 2..Len(fetchLog) :
        (fetchLog[k].url # BaseUrl /\ fetchLog[k].served = BaseUrl)
        => /\ Len(fetchLog) = k
           /\ wPc = "returned"
           /\ wReturn = [kind |-> "list", links |-> LinksOfFetches(fetchLog, k - 1)]

\* C10: the walk never fetches a page URL it has already fetched (so a cycle
\* of next links cannot keep it running).
C10_NoPageFetchedTwice ==
    \A j, k \in 1..Len(fetchLog) :
        j # k => fetchLog[j].url # fetchLog[k].url

\* C20: the walk fetches one page after the other, the subcategory URL
\* first and then always the next-page link of the page just served, whose
\* links were extracted before; what it returns is the concatenation, in
\* fetch order, of the links of every page fetched, the last one included.
C20_SequentialWalkConcatenates ==
    /\ fetchLog # <<>> => fetchLog[1].url = BaseUrl
    /\ \A k \in 1..Len(fetchLog) :
        /\ fetchLog[k].served # 0 =>
            /\ fetchLog[k].served = Served(site, fetchLog[k].url)
            /\ fetchLog[k].links = parse_links(site, fetchLog[k].served)
        /\ k < Len(fetchLog) =>
            /\ fetchLog[k].served # 0
            /\ fetchLog[k + 1].url = find_next_page(site, fetchLog[k].served)
    /\ wPc = "fetching" =>
        page_url = IF fetchLog = <<>> THEN BaseUrl
                   ELSE find_next_page(site, Last(fetchLog).served)
    /\ results = LinksOfFetches(fetchLog, Len(fetchLog))
    /\ wPc = "returned" =>
        wReturn = [kind |-> "list", links |-> LinksOfFetches(fetchLog, Len(fetchLog))]

\* A walk over three pages that all list a product, returned.
C20_Witness ==
    /\ wPc = "returned"
    /\ Len(fetchLog) = 3
    /\ \A k \in 1..3 : fetchLog[k].links # <<>>
    /\ Cardinality({fetchLog[k].served : k \in 1..3}) = 3
    /\ Len(wReturn.links) = 3

(***************************************************************************)
(* Properties of the run (Spec)                                            *)
(***************************************************************************)

\* The lines written through the handle of atomic_writer so far, and after
\* the rename the lines of the output file.
OutputLines ==
    IF tmp.exists THEN tmp.lines
    ELSE IF mainPc = "done" THEN dest.lines ELSE <<>>

\* C1: a failure of one URL's fetch or parse stays inside that URL's task:
\* gather_products is not left by it, no other task is aborted, and the run
\* ends normally.
C1_ProductFailureIsolated ==
    /\ gatherExc \notin {"TypeError", "ClientError", "IndexError"}
    /\ \A i \in DOMAIN tasks : tasks[i].pc # "cancelled"

\* C2: when the run fails, the file at the destination path is the one that
\* was there when the run started; the destination changes only in a run
\* whose atomic_writer body ended without an exception.
C2_DestinationUntouchedOnFailure ==
    /\ mainPc = "failed" => dest = dest0
    /\ dest # dest0 => mainPc = "done" /\ gatherExc = "none"
    /\ mainPc \notin {"done", "failed"} => dest = dest0

\* The run failed by an exception out of gather_products after another task
\* had written its line, with a file already at the destination.
C2_Witness ==
    /\ mainPc = "failed"
    /\ gatherExc # "none"
    /\ dest0.exists
    /\ \E i \in DOMAIN tasks : tasks[i].pc = "stored"

C4_LineOnlyAfterUpsert ==
    /\ \A n \in 1..Len(OutputLines) :
        LET l == OutputLines[n] IN
        /\ l.task \in DOMAIN tasks
        /\ tasks[l.task].upserted
        /\ tasks[l.task].url = l.url
        /\ l.url \in DOMAIN store
    /\ \A i \in DOMAIN tasks :
        tasks[i].pc = "dropped" =>
            /\ ~tasks[i].upserted
            /\ tasks[i].attempt = LastStoreAttempt
            /\ \A n \in 1..Len(OutputLines) : OutputLines[n].task # i

\* One task wrote its line after its upsert, another was dropped after its
\* third failed upsert.
C4_Witness ==
    /\ Len(OutputLines) = 1
    /\ \E i, j \in DOMAIN tasks :
        /\ tasks[i].pc = "stored"
        /\ tasks[j].pc = "dropped"
        /\ tasks[j].url # tasks[i].url

\* C11: a subcategory whose walk raises is skipped and the other
\* subcategories are still walked -- main never fails out of the link stage
\* with subcategories left unwalked.
C11_WalkFailureIsolated ==
    ~(mainPc = "failed" /\ tasks = <<>> /\ tmp = NoFile /\ walked < subcats)

InFlight == Cardinality({i \in DOMAIN tasks : tasks[i].pc \in InGate})

InFlightWalks == IF mainPc = "walking" THEN 1 ELSE 0

DebugTasks == {i \in DOMAIN tasks : tasks[i].debug_path}

\* C14: at most one task of the product stage is ever handed a debug path,
\* none without a debug directory, and once one was handed out the event
\* html_saved is set.
C14_AtMostOneDebugPath ==
    /\ Cardinality(DebugTasks) <= 1
    /\ DebugTasks # {} => debug_dir /\ html_saved
    /\ html_saved => DebugTasks # {}

C14_Witness ==
    /\ debug_dir
    /\ Cardinality(DebugTasks) = 1
    /\ Cardinality({i \in DOMAIN tasks : tasks[i].pc \in InGate}) = 2

\* C16: however main ends once the store client exists -- normally, or by
\* an exception of the link stage, of the product stage or of opening the
\* temporary file -- client.close() was called exactly once and close_browser
\* exactly once, and neither _browser nor _playwright is set; before main
\* ends neither was called.
C16_CleanupExactlyOnce ==
    /\ (mainPc \in {"done", "failed"} /\ mongo # "unopened") =>
        /\ mongo = "closed"
        /\ clientCloses = 1
        /\ closeBrowserCalls = 1
        /\ browser = None
        /\ playwright = None
    /\ mainPc \notin {"done", "failed"} =>
        /\ clientCloses = 0
        /\ closeBrowserCalls = 0

\* main left by an exception of the product stage, after lines were written.
C16_Witness ==
    /\ mainPc = "failed"
    /\ gatherExc # "none"
    /\ \E i \in DOMAIN tasks : tasks[i].pc = "stored"
    /\ clientCloses = 1
    /\ closeBrowserCalls = 1

LinesOf(i) == {k \in 1..Len(OutputLines) : OutputLines[k].task = i}

\* C18: update_one is attempted at most 3 times per product; the sleeps
\* between the attempts are 2 s after the first failure and 4 s after the
\* second, none after the third; a success ends the attempts and writes the
\* one line; after 3 failures the product has no line and its task has
\* returned without raising, which leaves gather and the other tasks alone.
C18_ThreeAttemptsLinearBackoff ==
    /\ \A i \in DOMAIN tasks :
        /\ tasks[i].attempt + 1 <= 3
        /\ Len(tasks[i].delays) \in {tasks[i].attempt, tasks[i].attempt + 1}
        /\ tasks[i].pc = "sleeping" => Len(tasks[i].delays) = tasks[i].attempt + 1
        /\ tasks[i].pc \in {"upserting", "stored", "dropped"} =>
                Len(tasks[i].delays) = tasks[i].attempt
        /\ \A k \in 1..Len(tasks[i].delays) : tasks[i].delays[k] = 2 * k
        /\ tasks[i].pc = "sleeping" => tasks[i].attempt + 1 < 3
        /\ tasks[i].pc = "dropped" =>
            /\ tasks[i].attempt + 1 = 3
            /\ tasks[i].delays = <<2, 4>>
            /\ ~tasks[i].upserted
            /\ mainPc # "failed" => LinesOf(i) = {}
        /\ tasks[i].pc = "stored" =>
            /\ tasks[i].upserted
            /\ mainPc # "failed" => Cardinality(LinesOf(i)) = 1
        /\ tasks[i].pc = "cancelled" => gatherExc # "none"
    /\ (\A i \in DOMAIN tasks : tasks[i].pc \in {"new", "parsing", "upserting",
                                                 "sleeping", "stored", "skipped",
                                                 "dropped"})
            => gatherExc = "none"

\* One product dropped after its third failure, another stored at its second
\* attempt, and the run ended normally with the one line.
C18_Witness ==
    /\ mainPc = "done"
    /\ Len(OutputLines) = 1
    /\ \E i, j \in DOMAIN tasks :
        /\ tasks[i].pc = "dropped"
        /\ tasks[j].pc = "stored" /\ tasks[j].delays = <<2>>

(***************************************************************************)
(* Properties of the run on the small site (SpecSite)                      *)
(***************************************************************************)

\* C19: on the site with two subcategories of 3 and 0 product links, where
\* every page is fetched and parsed and every store call succeeds, main ends
\* normally, the output file holds exactly 3 lines, one per product URL, and
\* the store holds exactly the 3 documents keyed by those URLs.
C19_EndToEndThreeProducts ==
    mainPc \in {"done", "failed"} =>
        /\ mainPc = "done"
        /\ dest.exists
        /\ Len(dest.lines) = 3
        /\ {dest.lines[k].url : k \in 1..Len(dest.lines)} = {1, 2, 3}
        /\ DOMAIN store = {1, 2, 3}

(***************************************************************************)
(* Properties of gather_products (SpecGather)                              *)
(***************************************************************************)

\* The product stage is over: gather_products was left.
GatherOver == mainPc \in {"done", "failed"}

\* The holder of write_lock is a task inside the gate that is writing, so no
\* task waits for the gate (pc "new") with the lock in its hand; and when the
\* stage is over every task has ended, sem is at its full count and
\* write_lock is free.
GatherResources ==
    /\ write_lock # NoWriter =>
        /\ write_lock \in DOMAIN tasks
        /\ tasks[write_lock].pc = "writing"
    /\ \A i \in DOMAIN tasks : tasks[i].pc = "writing" => write_lock = i
    /\ GatherOver =>
        /\ \A i \in DOMAIN tasks : tasks[i].pc \in Finished
        /\ sem = concurrency
        /\ write_lock = NoWriter

\* C21: the product stage cannot deadlock -- for every concurrency >= 1 and
\* every list of urls, when every fetch, store call and sleep ends, every
\* task ends and gather_products is left; no task waits for the gate while
\* it holds write_lock, and at the end the gate has all its permits and
\* write_lock is free.
C21_ProductStageEnds == [] GatherResources /\ <> GatherOver

\* gather_products returned with one permit after two tasks took their turn
\* at the gate and at write_lock.
C21_Witness ==
    /\ mainPc = "done"
    /\ concurrency = 1
    /\ Len(tasks) = 2
    /\ \A i \in DOMAIN tasks : tasks[i].pc = "stored"
    /\ sem = concurrency
    /\ write_lock = NoWriter

(***************************************************************************)
(* Properties of atomic_writer (SpecAtomic)                                *)
(***************************************************************************)

\* C23: once the with-block of atomic_writer is left, normally or by an
\* exception, nothing is at tmp_path; after a normal exit the file at path
\* holds exactly the lines written through fh, whatever was there before;
\* and os.replace is only ever called with fh closed.
C23_NoTempFileLeft ==
    /\ awPc \in {"exited", "raised"} => ~tmp_file.exists
    /\ awPc = "exited" =>
        /\ path_file = [exists |-> TRUE, lines |-> written]
        /\ fhAtReplace = "closed"
    /\ fhAtReplace \in {"none", "closed"}

\* The body raised after it had written a line through fh, with a file
\* already at path.
C23_Witness ==
    /\ awPc = "raised"
    /\ fh = "closed"
    /\ fhAtReplace = "none"
    /\ Len(written) >= 1
    /\ path0.exists
    /\ ~tmp_file.exists

(***************************************************************************)
(* Properties of the shared browser (SpecBrowser)                          *)
(***************************************************************************)

\* C15: at most one browser process is ever launched in a run, every fetch
\* that got a browser from get_browser got the same one, and a fetch that is
\* over has left no browsing context of its own open.
C15_OneBrowserContextsClosed ==
    /\ launched <= 1
    /\ \A f, g \in Fetches : (got[f] # None /\ got[g] # None) => got[f] = got[g]
    /\ \A f \in Fetches : brPc[f] \in {"returned", "raised"} => contexts[f] # "open"

(***************************************************************************)
(* Properties of the block under write_lock (SpecWrite)                    *)
(***************************************************************************)

InBlock(w) == wrPc[w] \in {"write", "flush", "fsync"}

\* Everything written so far, in the order it reaches the file.
Written == disk \o osFile \o fhBuffer

\* C13: at most one task is between acquiring and releasing write_lock; the
\* output is a sequence of whole lines, each the data and the newline of one
\* task; and the line of a task that left the block is on the disk.
C13_WritesMutuallyExclusive ==
    /\ Cardinality({w \in Writers : InBlock(w)}) <= 1
    /\ \A w \in Writers : InBlock(w) <=> write_lock = w
    /\ Len(Written) % 2 = 0
    /\ \A k \in 1..Len(Written) :
        k % 2 = 1 => /\ Written[k].part = "data"
                     /\ Written[k + 1] = [task |-> Written[k].task, part |-> "newline"]
    /\ \A w \in Writers :
        wrPc[w] = "done" =>
            /\ \E k \in 1..Len(disk) : disk[k] = [task |-> w, part |-> "newline"]
            /\ \A k \in 1..Len(osFile \o fhBuffer) : (osFile \o fhBuffer)[k].task # w

C13_Witness ==
    \E w1, w2, w3 \in Writers :
        /\ wrPc[w1] = "done"
        /\ wrPc[w2] = "fsync" /\ write_lock = w2
        /\ wrPc[w3] = "waiting"
        /\ disk = Line(w1)
        /\ osFile = Line(w2)

====
